---- MODULE Spec2Model ----
(***************************************************************************)
(* vcpkg-http-binary-cache (src/src/main.rs): an HTTP front end over two   *)
(* directories.  GET/HEAD/PUT /cache/{hash} read and write                  *)
(* binary_root/hash[..2]/hash.zip, PUT /asset/{hash} writes                 *)
(* asset_root/hash.  Every PUT stages its body in a NamedTempFile in the    *)
(* destination's parent directory and renames it onto the destination.      *)
(*                                                                          *)
(* The model has one task per request (tokio runs them on several worker    *)
(* threads, so every system call of one request interleaves with those of   *)
(* the others), a file system of directories, directory entries and inodes, *)
(* and the path arithmetic of std::path (push, parent, components).         *)
(***************************************************************************)
EXTENDS Integers, Sequences, FiniteSets, TLC

VARIABLES
    dirs,      \* the directories that exist: a set of canonical paths
    names,     \* the directory entries of regular files: canonical path -> inode
    data,      \* the content of every inode: inode -> sequence of bytes
    req,       \* the request tasks: slot -> record (see IdleReq)
    renames    \* history: the slots whose rename(2) succeeded, oldest first

vars == <<dirs, names, data, req, renames>>

-----------------------------------------------------------------------------
(* Bounds of the model.                                                     *)

\* request slots (concurrent or successive requests in one run)
NumReqs == 2
\* longest request body, in chunks of one byte
MaxBodyLen == 2

\* main.rs:69  hash.len() < 20
MinHashLen == 20
\* main.rs:74  &hash[..2]
ShardLen == 2

Procs == 1..NumReqs

\* the request of an earlier run of the server whose file is still in the
\* cache directory when this run starts, and the inode of that file
OldFile == NumReqs + 1

\* every request creates at most one file: inodes are named by their creator
Inodes == Procs \cup {OldFile}

-----------------------------------------------------------------------------
(* Strings.  A Rust String is modelled as a sequence of characters, each    *)
(* character a one-letter TLA+ string.  "E" stands for a character whose    *)
(* UTF-8 encoding has three bytes (such as the euro sign) and "e" for one   *)
(* of two bytes (such as e-acute); every other character is ASCII.          *)

Utf8Len(c) == IF c = "E" THEN 3 ELSE IF c = "e" THEN 2 ELSE 1

RECURSIVE StrLen(_)
\* str::len: the length in bytes
StrLen(s) == IF s = <<>> THEN 0 ELSE Utf8Len(Head(s)) + StrLen(Tail(s))

\* the number of characters (str::chars().count())
CharCount(s) == Len(s)

RECURSIVE Rep(_, _)
\* the string of n characters c
Rep(c, n) == IF n = 0 THEN <<>> ELSE Append(Rep(c, n - 1), c)

RECURSIVE CharsUpTo(_, _)
\* the number of leading characters of s that end at byte offset n, or -1
\* when n is not a character boundary (str::is_char_boundary is false)
CharsUpTo(s, n) ==
    IF n = 0 THEN 0
    ELSE IF s = <<>> \/ Utf8Len(Head(s)) > n THEN -1
    ELSE LET r == CharsUpTo(Tail(s), n - Utf8Len(Head(s)))
         IN  IF r < 0 THEN -1 ELSE r + 1

\* &s[..n]: Ok with the slice, or a panic when n is past the end or inside a
\* character
StrPrefix(s, n) ==
    LET k == CharsUpTo(s, n)
    IN  IF k < 0 THEN [panic |-> TRUE, val |-> <<>>]
        ELSE [panic |-> FALSE, val |-> SubSeq(s, 1, k)]

-----------------------------------------------------------------------------
(* Paths (std::path on Unix).  A PathBuf is its text, a sequence of         *)
(* characters with "/" the separator.  The file system is keyed by          *)
(* canonical paths: sequences of components from the root directory.        *)

IsAbsolute(p) == p # <<>> /\ p[1] = "/"

\* PathBuf::push: an absolute argument replaces the buffer, otherwise the
\* argument is appended after a separator
PathPush(buf, p) ==
    IF IsAbsolute(p) THEN p
    ELSE IF buf # <<>> /\ buf[Len(buf)] # "/" THEN buf \o <<"/">> \o p
    ELSE buf \o p

RECURSIVE SplitPath(_, _, _)
\* Path::components of an absolute path: the text cut at separators, empty
\* components and "." dropped, ".." kept
SplitPath(p, cur, acc) ==
    LET keep == IF cur = <<>> \/ cur = <<".">> THEN acc ELSE Append(acc, cur)
    IN  IF p = <<>> THEN keep
        ELSE IF Head(p) = "/" THEN SplitPath(Tail(p), <<>>, keep)
        ELSE SplitPath(Tail(p), Append(cur, Head(p)), acc)

Components(p) == SplitPath(p, <<>>, <<>>)

\* Path::parent: None for the root, otherwise the path without its last
\* component (lexically: ".." is a component like any other)
PathParent(p) ==
    LET cs == Components(p)
    IN  IF cs = <<>> THEN [none |-> TRUE, comps |-> <<>>]
        ELSE [none |-> FALSE, comps |-> SubSeq(cs, 1, Len(cs) - 1)]

DotDot == <<".", ".">>

RECURSIVE Walk(_, _, _)
\* path resolution by the kernel: from directory cur, follow the components;
\* every directory stepped through must exist.  The resolved path itself need
\* not exist.
Walk(cur, cs, ds) ==
    IF cs = <<>> THEN [ok |-> TRUE, at |-> cur]
    ELSE IF cur \notin ds THEN [ok |-> FALSE, at |-> cur]
    ELSE IF Head(cs) = DotDot
         THEN Walk(IF cur = <<>> THEN cur ELSE SubSeq(cur, 1, Len(cur) - 1),
                   Tail(cs), ds)
    ELSE Walk(Append(cur, Head(cs)), Tail(cs), ds)

Resolve(cs, ds) == Walk(<<>>, cs, ds)

\* the two roots (Args.binary_root, Args.asset_root): existing directories
BinaryRoot == <<"/", "B">>
AssetRoot == <<"/", "A">>

-----------------------------------------------------------------------------
(* hash_to_file (main.rs:68-78).                                            *)

\* mutant: the length check is missing
hash_to_file_unchecked(root, hash) ==
    LET shard == StrPrefix(hash, ShardLen)
    IN  IF shard.panic
        THEN [tag |-> "Panic", status |-> 0, path |-> <<>>]
        ELSE [tag |-> "Ok", status |-> 200,
              path |-> PathPush(PathPush(root, shard.val),
                                hash \o <<".", "z", "i", "p">>)]

hash_to_file(root, hash) ==
    IF StrLen(hash) < MinHashLen
    THEN [tag |-> "Err", status |-> 400, path |-> <<>>]
    ELSE LET shard == StrPrefix(hash, ShardLen)
         IN  IF shard.panic
             THEN [tag |-> "Panic", status |-> 0, path |-> <<>>]
             ELSE [tag |-> "Ok", status |-> 200,
                   path |-> PathPush(PathPush(root, shard.val),
                                     hash \o <<".", "z", "i", "p">>)]

-----------------------------------------------------------------------------
(* The file system: the system calls the handlers make.                     *)

\* what the kernel reports as st_size of a directory (meta.len() at
\* main.rs:97 when the path is a directory)
DirEntrySize == 4096

\* an open file description of a directory (File::open at main.rs:99
\* succeeds on a directory; reading it fails)
DirFd == 0 - 1
NoFd == 0

\* the name NamedTempFile::new_in gives the staging file of request p: a name
\* no other file has (".tmp" and p random characters)
TmpName(p) == <<".", "t", "m", "p">> \o Rep("x", p)

\* Path::exists, and whether fs::metadata is Ok
FsExists(cs, ds, ns) ==
    LET r == Resolve(cs, ds)
    IN  r.ok /\ (r.at \in ds \/ r.at \in DOMAIN ns)

\* mutant: the length is not that of the file the path names
FsLenOfDir(cs, ds, ns, dt) == DirEntrySize

\* fs::metadata(..).len() of a path that exists
FsLen(cs, ds, ns, dt) ==
    LET r == Resolve(cs, ds)
    IN  IF r.at \in DOMAIN ns THEN Len(dt[ns[r.at]]) ELSE DirEntrySize

\* fs::create_dir: "ok" with the directory to add, or the io::ErrorKind
FsCreateDir(cs, ds, ns) ==
    LET r == Resolve(cs, ds)
    IN  IF ~r.ok THEN [kind |-> "NotFound", at |-> <<>>]
        ELSE IF r.at \in ds \/ r.at \in DOMAIN ns
             THEN [kind |-> "AlreadyExists", at |-> <<>>]
        ELSE [kind |-> "ok", at |-> r.at]

\* File::open: the inode opened, DirFd for a directory, NoFd when it fails
FsOpen(cs, ds, ns) ==
    LET r == Resolve(cs, ds)
    IN  IF ~r.ok THEN NoFd
        ELSE IF r.at \in DOMAIN ns THEN ns[r.at]
        ELSE IF r.at \in ds THEN DirFd
        ELSE NoFd

\* fs::rename(from, to) of a regular file: the directory entries afterwards,
\* or failure (the target is a directory, or its directory does not exist)
\* mutant: rename(2) that refuses to replace an existing target
FsRenameNoReplace(from, cs, ds, ns) ==
    LET r == Resolve(cs, ds)
    IN  /\ from \in DOMAIN ns
        /\ r.ok
        /\ r.at \notin ds
        /\ r.at \notin DOMAIN ns
        /\ cs # <<>>

FsRenameOk(from, cs, ds, ns) ==
    LET r == Resolve(cs, ds)
    IN  /\ from \in DOMAIN ns
        /\ r.ok
        /\ r.at \notin ds
        /\ cs # <<>>

\* mutant: rename(2) done in two steps, unlink of the target first
FsRenameUnlinkFirst(from, cs, ds, ns) ==
    LET to == Resolve(cs, ds).at
    IN  IF to \in DOMAIN ns THEN [q \in DOMAIN ns \ {to} |-> ns[q]]
        ELSE [q \in (DOMAIN ns \ {from}) \cup {to} |->
                 IF q = to THEN ns[from] ELSE ns[q]]

FsRename(from, cs, ds, ns) ==
    LET to == Resolve(cs, ds).at
    IN  [q \in (DOMAIN ns \ {from}) \cup {to} |->
            IF q = to THEN ns[from] ELSE ns[q]]

\* mutant: the staging file is not removed
FsRemoveNothing(path, ns) == ns

\* unlink of a path that may be gone already (the Drop of NamedTempFile)
FsRemove(path, ns) == [q \in DOMAIN ns \ {path} |-> ns[q]]

-----------------------------------------------------------------------------
(* Request tasks.                                                           *)

\* a request body: a stream of one-byte chunks
RECURSIVE Body(_, _)
Body(k, n) == IF n = 0 THEN <<>> ELSE Append(Body(k, n - 1), ((n + k) % 2) + 1)
Bodies == {Body(0, n) : n \in 0..MaxBodyLen} \cup {Body(1, MaxBodyLen)}

IdleReq ==
    [op         |-> "none",  \* "get", "head", "put" (PUT /cache), "asset"
     hash       |-> <<>>,    \* Path(hash): the token of the request path
     body       |-> <<>>,    \* the body the client means to send
     pc         |-> "idle",  \* where the handler is
     cache_path |-> <<>>,    \* cache_path / path: the destination
     tmp        |-> <<>>,    \* the path of tmp_file, <<>> when there is none
     status     |-> 0,       \* the StatusCode answered, 0 while there is none
     msg        |-> "",      \* which error was mapped to the status
     clen       |-> 0 - 1,   \* the Content-Length header of a GET response
     out        |-> <<>>,    \* the response body streamed so far
     fd         |-> NoFd,    \* the file the response body reads
     fsops      |-> 0,       \* history: file system calls made so far
     seen0      |-> 0,       \* history: Len(renames) at metadata / exists
     seen1      |-> 0]       \* history: Len(renames) at File::open

InFlight(r) == r.pc \notin {"idle", "done", "panicked", "cancelled", "crashed"}

Set(p, r) == req' = [req EXCEPT ![p] = r]

Fs(r) == [r EXCEPT !.fsops = 1]

\* the requests that carry a body, and the body of those that do not
WriteOps == {"put", "asset"}
NoBody == {<<>>}

\* a request arrives: the router hands (hash, body) to the handler of its
\* method and path (main.rs:47-52).  Slots are taken in order of arrival.
Start(p, ops, toks) ==
    /\ req[p].pc = "idle"
    /\ \A q \in Procs : q < p => req[q].pc # "idle"
    /\ \E op \in ops, h \in toks :
         \E b \in (IF op \in WriteOps THEN Bodies ELSE NoBody) :
            Set(p, [IdleReq EXCEPT !.op = op, !.hash = h, !.body = b,
                        !.pc = IF op = "asset" THEN "join" ELSE "resolve"])
    /\ UNCHANGED <<dirs, names, data, renames>>

\* main.rs:84, 110, 144: let cache_path = hash_to_file(&state.binary_root, &hash)?
HashToFile(p) ==
    /\ req[p].pc = "resolve"
    /\ LET r == hash_to_file(BinaryRoot, req[p].hash)
       IN  Set(p, IF r.tag = "Err"
                  THEN [req[p] EXCEPT !.pc = "done", !.status = r.status,
                                      !.msg = "hash too short"]
                  ELSE IF r.tag = "Panic"
                  THEN [req[p] EXCEPT !.pc = "panicked"]
                  ELSE [req[p] EXCEPT !.cache_path = r.path,
                            !.pc = CASE req[p].op = "get" -> "meta"
                                     [] req[p].op = "head" -> "exists"
                                     [] OTHER -> "parent"])
    /\ UNCHANGED <<dirs, names, data, renames>>

\* main.rs:86-94: fs::metadata(&cache_path)
GetMetadata(p) ==
    /\ req[p].pc = "meta"
    /\ LET cs == Components(req[p].cache_path)
       IN  Set(p, IF FsExists(cs, dirs, names)
                  THEN [Fs(req[p]) EXCEPT !.pc = "open",
                            !.clen = FsLen(cs, dirs, names, data),
                            !.seen0 = Len(renames)]
                  ELSE [Fs(req[p]) EXCEPT !.pc = "done", !.status = 404,
                            !.msg = "failed to fetch",
                            !.seen0 = Len(renames)])
    /\ UNCHANGED <<dirs, names, data, renames>>

\* main.rs:96-103: File::open(cache_path); the handler returns the response
\* head (200, Content-Length) and the body is the ReaderStream of the file
GetOpen(p) ==
    /\ req[p].pc = "open"
    /\ LET f == FsOpen(Components(req[p].cache_path), dirs, names)
       IN  Set(p, IF f = NoFd
                  THEN [Fs(req[p]) EXCEPT !.pc = "done", !.status = 404,
                            !.msg = "open", !.clen = 0 - 1,
                            !.seen1 = Len(renames)]
                  ELSE [Fs(req[p]) EXCEPT !.pc = "stream", !.status = 200,
                            !.fd = f, !.seen1 = Len(renames)])
    /\ UNCHANGED <<dirs, names, data, renames>>

\* main.rs:98: ReaderStream polled by the server: the next chunk of the open
\* file, the end of the body at end of file, an error for a directory
GetStream(p) ==
    /\ req[p].pc = "stream"
    /\ Set(p, IF req[p].fd = DirFd
              THEN [req[p] EXCEPT !.pc = "done", !.msg = "read error"]
              ELSE IF Len(req[p].out) < Len(data[req[p].fd])
              THEN [req[p] EXCEPT
                        !.out = Append(@, data[req[p].fd][Len(@) + 1])]
              ELSE [req[p] EXCEPT !.pc = "done"])
    /\ UNCHANGED <<dirs, names, data, renames>>

\* mutant: Exists makes the directory of the path it looks for
CacheHeadCreatesShard(p) ==
    /\ req[p].pc = "exists"
    /\ Set(p, IF FsExists(Components(req[p].cache_path), dirs, names)
              THEN [Fs(req[p]) EXCEPT !.pc = "done", !.status = 200,
                        !.seen0 = Len(renames)]
              ELSE [Fs(req[p]) EXCEPT !.pc = "done", !.status = 404,
                        !.msg = "does not exist", !.seen0 = Len(renames)])
    /\ LET r == FsCreateDir(PathParent(req[p].cache_path).comps, dirs, names)
       IN  dirs' = IF r.kind = "ok" THEN dirs \cup {r.at} ELSE dirs
    /\ UNCHANGED <<names, data, renames>>

\* main.rs:112-119: cache_path.exists()
CacheHead(p) ==
    /\ req[p].pc = "exists"
    /\ Set(p, IF FsExists(Components(req[p].cache_path), dirs, names)
              THEN [Fs(req[p]) EXCEPT !.pc = "done", !.status = 200,
                        !.seen0 = Len(renames)]
              ELSE [Fs(req[p]) EXCEPT !.pc = "done", !.status = 404,
                        !.msg = "does not exist", !.seen0 = Len(renames)])
    /\ UNCHANGED <<dirs, names, data, renames>>

-----------------------------------------------------------------------------
(* cache_put, asset_put and write_stream_to_file.                           *)

\* mutant: the error is logged and the handler answers Ok(())
FailAsOk(r, status, msg) == [r EXCEPT !.pc = "done", !.status = 200, !.msg = msg]

\* how a handler ends with Err((StatusCode, String))
Fail(r, status, msg) == [r EXCEPT !.pc = "done", !.status = status, !.msg = msg]

\* main.rs:146: if !cache_path.parent().unwrap().exists()
PutParentExists(p) ==
    /\ req[p].pc = "parent"
    /\ LET par == PathParent(req[p].cache_path)
       IN  Set(p, IF par.none
                  THEN [req[p] EXCEPT !.pc = "panicked"]
                  ELSE IF FsExists(par.comps, dirs, names)
                  THEN [Fs(req[p]) EXCEPT !.pc = "tmp"]
                  ELSE [Fs(req[p]) EXCEPT !.pc = "mkdir"])
    /\ UNCHANGED <<dirs, names, data, renames>>

\* main.rs:147-148: fs::create_dir(parent) mapped to 500 on any error:
\* the directory exists by now, its own parent is missing, or the file system
\* refuses (io: permissions, no space)
PutCreateDir(p) ==
    /\ req[p].pc = "mkdir"
    /\ \E io \in BOOLEAN :
         LET r == FsCreateDir(PathParent(req[p].cache_path).comps, dirs, names)
         IN  IF r.kind # "ok"
             THEN /\ Set(p, Fail(Fs(req[p]), 500, r.kind))
                  /\ dirs' = dirs
             ELSE IF io
             THEN /\ Set(p, Fail(Fs(req[p]), 500, "create_dir"))
                  /\ dirs' = dirs
             ELSE /\ Set(p, [Fs(req[p]) EXCEPT !.pc = "tmp"])
                  /\ dirs' = dirs \cup {r.at}
    /\ UNCHANGED <<names, data, renames>>

\* main.rs:169: let path = state.asset_root.join(hash)
AssetJoin(p) ==
    /\ req[p].pc = "join"
    /\ Set(p, [req[p] EXCEPT !.cache_path = PathPush(AssetRoot, req[p].hash),
                             !.pc = "tmp"])
    /\ UNCHANGED <<dirs, names, data, renames>>

\* the status cache_put and asset_put give an io::Error of
\* write_stream_to_file (main.rs:153, 173)
WriteErrorStatus == 500

\* mutant: the body is written straight into the destination
TmpPathAtDest(p, dir) == Components(req[p].cache_path)

\* where NamedTempFile::new_in(dir) puts the staging file of request p
TmpPath(p, dir) == Append(dir, TmpName(p))

\* main.rs:126-127: NamedTempFile::new_in(path.parent().unwrap())?: an empty
\* file under a fresh name in the destination's directory
TmpCreate(p) ==
    /\ req[p].pc = "tmp"
    /\ \E io \in BOOLEAN :
         LET par == PathParent(req[p].cache_path)
             r   == Resolve(par.comps, dirs)
             t   == TmpPath(p, r.at)
         IN  IF par.none
             THEN /\ Set(p, [req[p] EXCEPT !.pc = "panicked"])
                  /\ UNCHANGED <<names, data>>
             ELSE IF ~(r.ok /\ r.at \in dirs)
             THEN /\ Set(p, Fail(Fs(req[p]), WriteErrorStatus, "NotFound"))
                  /\ UNCHANGED <<names, data>>
             ELSE IF io
             THEN /\ Set(p, Fail(Fs(req[p]), WriteErrorStatus, "tempfile"))
                  /\ UNCHANGED <<names, data>>
             ELSE /\ Set(p, [Fs(req[p]) EXCEPT !.pc = "copy", !.tmp = t])
                  /\ names' = [q \in DOMAIN names \cup {t} |->
                                  IF q = t THEN p ELSE names[q]]
                  /\ data' = [data EXCEPT ![p] = <<>>]
    /\ UNCHANGED <<dirs, renames>>

\* main.rs:132: tokio::io::copy moves the next chunk of the body to the file
CopyChunk(p) ==
    /\ req[p].pc = "copy"
    /\ Len(data[p]) < Len(req[p].body)
    /\ data' = [data EXCEPT
                   ![p] = Append(@, req[p].body[Len(data[p]) + 1])]
    /\ UNCHANGED <<dirs, names, req, renames>>

\* main.rs:132: the body stream ends: copy returns, the async handle is
\* dropped (main.rs:133)
CopyEof(p) ==
    /\ req[p].pc = "copy"
    /\ Len(data[p]) = Len(req[p].body)
    /\ Set(p, [req[p] EXCEPT !.pc = "rename"])
    /\ UNCHANGED <<dirs, names, data, renames>>

\* the two ends tokio::io::copy can fail at: the body stream and the file
CopyErrors == {"stream", "write"}

\* main.rs:132: copy fails (the body stream yields an error, as when the
\* client stops sending, or the write to disk fails); `?` returns and
\* tmp_file is dropped, which removes the staging file
CopyFail(p) ==
    /\ req[p].pc = "copy"
    /\ \E why \in CopyErrors :
         Set(p, Fail([req[p] EXCEPT !.tmp = <<>>], WriteErrorStatus, why))
    /\ names' = FsRemove(req[p].tmp, names)
    /\ UNCHANGED <<dirs, data, renames>>

\* what the rename of main.rs:135 moves: the staging file
RenameSource(p) == req[p].tmp

\* mutant: the rename does not wait for the copy to finish
RenameReadyEarly(p) == req[p].pc \in {"copy", "rename"}

\* when write_stream_to_file may rename: after copy has returned Ok
RenameReady(p) == req[p].pc = "rename"

\* main.rs:135-136: fs::rename(tmp_file.keep()?.1, path)?: keep makes the
\* staging file outlive tmp_file, rename puts it at the destination
KeepRename(p) ==
    /\ RenameReady(p)
    /\ InFlight(req[p])
    /\ req[p].tmp # <<>>
    /\ \E io \in BOOLEAN :
         LET cs == Components(req[p].cache_path)
         IN  IF io \/ ~FsRenameOk(RenameSource(p), cs, dirs, names)
             THEN /\ Set(p, Fail(Fs(req[p]), WriteErrorStatus, "rename"))
                  /\ UNCHANGED <<names, renames>>
             ELSE /\ Set(p, [Fs(req[p]) EXCEPT !.pc = "done", !.status = 200,
                                               !.tmp = <<>>])
                  /\ names' = FsRename(RenameSource(p), cs, dirs, names)
                  /\ renames' = Append(renames, p)
    /\ UNCHANGED <<dirs, data>>

\* the client goes away and the server drops the handler's future at the
\* await it is suspended in: tokio::io::copy (main.rs:132), which drops
\* tmp_file and removes the staging file, or the response body (main.rs:98)
Cancel(p) ==
    /\ req[p].pc \in {"copy", "stream"}
    /\ Set(p, [req[p] EXCEPT !.pc = "cancelled", !.tmp = <<>>])
    /\ names' = IF req[p].pc = "copy" THEN FsRemove(req[p].tmp, names) ELSE names
    /\ UNCHANGED <<dirs, data, renames>>

\* the process is killed: every task stops where it is, nothing runs Drop,
\* the file system stays as it is; the restarted process serves later requests
Crash ==
    /\ \E p \in Procs : InFlight(req[p])
    /\ req' = [p \in DOMAIN req |->
                  IF InFlight(req[p]) THEN [req[p] EXCEPT !.pc = "crashed"]
                  ELSE req[p]]
    /\ UNCHANGED <<dirs, names, data, renames>>

-----------------------------------------------------------------------------------------------------------------------------------------------------
(* Specifications.                                                          *)

Canon(p) == Components(p)

\* hashes as vcpkg sends them: two in one shard, and one too short
HashA == Rep("a", MinHashLen)
HashB == Rep("a", MinHashLen - 1) \o <<"b">>
HashShort == Rep("a", MinHashLen - 1)

\* the destination of a hash and its shard directory, as canonical paths
Dest(h) == Canon(hash_to_file(BinaryRoot, h).path)
Shard(h) == PathParent(hash_to_file(BinaryRoot, h).path).comps

\* the record of a PUT /cache/{h} with body b that an earlier run completed
OldPut(h, b) ==
    [IdleReq EXCEPT !.op = "put", !.hash = h, !.body = b, !.pc = "done",
                    !.cache_path = hash_to_file(BinaryRoot, h).path,
                    !.status = 200, !.fsops = 1]

\* the roots exist and are empty (main.rs:27, 30: both must pre-exist)
InitDirs == {<<>>, Canon(BinaryRoot), Canon(AssetRoot)}

InitEmpty ==
    /\ dirs = InitDirs
    /\ names = [q \in {} |-> NoFd]
    /\ data = [i \in Inodes |-> <<>>]
    /\ req = [p \in Inodes |-> IdleReq]
    /\ renames = <<>>

\* binary_root holds the object an earlier run stored at HashA
InitStored ==
    \E b \in Bodies :
        /\ dirs = InitDirs \cup {Shard(HashA)}
        /\ names = [q \in {Dest(HashA)} |-> OldFile]
        /\ data = [i \in Inodes |-> IF i = OldFile THEN b ELSE <<>>]
        /\ req = [p \in Inodes |-> IF p = OldFile THEN OldPut(HashA, b)
                                   ELSE IdleReq]
        /\ renames = <<OldFile>>

Init == InitEmpty \/ InitStored

Step(p) ==
    \/ HashToFile(p)
    \/ GetMetadata(p)
    \/ GetOpen(p)
    \/ GetStream(p)
    \/ PutParentExists(p)
    \/ PutCreateDir(p)
    \/ TmpCreate(p)
    \/ CopyChunk(p)
    \/ CopyEof(p)
    \/ CopyFail(p)
    \/ KeepRename(p)
    \/ Cancel(p)

\* Fetch and StoreBinary of one hash, and of a token that is too short
CacheOps == {"get", "put"}
CacheTokens == {HashA, HashShort}

Next ==
    \/ \E p \in Procs : Start(p, CacheOps, CacheTokens)
    \/ \E p \in Procs : Step(p)
    \/ Crash

Spec == Init /\ [][Next]_vars

-----------------------------------------------------------------------------
(* Properties of Fetch and StoreBinary (Spec).                              *)

IsPrefix(a, b) == Len(a) <= Len(b) /\ SubSeq(b, 1, Len(a)) = a

Range(f) == {f[i] : i \in DOMAIN f}

Max(S) == CHOOSE x \in S : \A y \in S : y <= x

ValidHashes == {HashA, HashB}
Dests == {Dest(h) : h \in ValidHashes}

\* what is visible at a path: <<>> when nothing is there, <<content>> for a file
DestState(d) == IF d \in DOMAIN names THEN <<data[names[d]]>> ELSE <<>>

\* the positions lo..hi of the history at which a rename onto d happened
RenamesTo(d, lo, hi) ==
    {i \in lo..hi : i \in DOMAIN renames /\ Canon(req[renames[i]].cache_path) = d}

GetOf(g) == req[g].op = "get"
PutOf(p) == req[p].op = "put"
Failed(r) == r.pc = "done" /\ r.status \in {400, 500}

\* C1: the body a Fetch streams is read from one file that a StoreBinary of
\* the same hash had completely written and renamed: at every moment a prefix
\* of that body, at the end all of it, and never a read error
C1_FetchStreamsOneCompleteBody ==
    \A g \in Procs :
        (GetOf(g) /\ req[g].fd # NoFd) =>
            /\ req[g].fd \in Inodes
            /\ LET w == req[req[g].fd]
               IN  /\ w.op = "put" /\ w.hash = req[g].hash /\ w.status = 200
                   /\ req[g].fd \in Range(renames)
                   /\ data[req[g].fd] = w.body
                   /\ IsPrefix(req[g].out, w.body)
                   /\ req[g].pc = "done" =>
                         (req[g].out = w.body /\ req[g].msg = "")

\* C1 witness: a Fetch has streamed the whole prior body although a
\* StoreBinary of another body was renamed after the Fetch opened the file
C1_Witness ==
    \E g, q \in Procs :
        /\ GetOf(g) /\ req[g].pc = "done" /\ req[g].fd = OldFile
        /\ Len(req[g].out) = MaxBodyLen
        /\ PutOf(q) /\ req[q].status = 200 /\ req[q].hash = req[g].hash
        /\ req[q].body # req[g].out
        /\ req[g].seen1 < Len(renames)

\* C2: what is visible at a destination changes only in the rename step of a
\* StoreBinary of that hash whose copy has returned with the whole body, and
\* becomes that body; no other step (a failure, a cancellation, a crash,
\* staging, copying) changes it
C2_DestChangesOnlyAtRename ==
    [][\A d \in Dests :
          DestState(d)' # DestState(d) =>
              \E p \in Procs :
                  /\ PutOf(p) /\ req[p].pc = "rename"
                  /\ Canon(req[p].cache_path) = d
                  /\ data[p] = req[p].body
                  /\ renames' = Append(renames, p)
                  /\ req'[p].status = 200
                  /\ DestState(d)' = <<req[p].body>>]_vars

\* C2 witness: a StoreBinary was cut by a crash after it had staged part of
\* a body, and the destination still holds the prior object
C2_Witness ==
    \E p \in Procs :
        /\ PutOf(p) /\ req[p].pc = "crashed" /\ req[p].tmp # <<>>
        /\ data[p] # <<>> /\ data[p] # req[p].body
        /\ Dest(req[p].hash) \in DOMAIN names
        /\ names[Dest(req[p].hash)] = OldFile
        /\ data[OldFile] = req[OldFile].body

\* a failure injected by the environment: the disk or the client
EnvFailure(r) == r.msg \in {"create_dir", "tempfile", "stream", "write", "rename"}

\* C3 (as claimed): two StoreBinary of one hash that both ran to the end
\* without a failure of the disk or of the client both return OK, and the
\* destination then holds the body of the one that renamed last
C3_BothOkLastWins ==
    \A p, q \in Procs :
        (/\ p # q /\ PutOf(p) /\ PutOf(q) /\ req[p].hash = req[q].hash
         /\ req[p].hash \in ValidHashes
         /\ req[p].pc = "done" /\ req[q].pc = "done"
         /\ ~EnvFailure(req[p]) /\ ~EnvFailure(req[q])) =>
            /\ req[p].status = 200 /\ req[q].status = 200
            /\ DestState(Dest(req[p].hash)) =
                   <<req[renames[Len(renames)]].body>>

\* C4: a Fetch that ran to the end, started after a StoreBinary of its hash
\* was promoted and with no other promotion until it opened the file, answers
\* 200 with that StoreBinary's body and its length as Content-Length
C4_RoundTrip ==
    \A g \in Procs :
        (GetOf(g) /\ req[g].pc = "done" /\ req[g].cache_path # <<>>) =>
            LET d == Canon(req[g].cache_path)
                before == RenamesTo(d, 1, req[g].seen0)
            IN  (before # {} /\ RenamesTo(d, req[g].seen0 + 1, req[g].seen1) = {}) =>
                    LET w == req[renames[Max(before)]]
                    IN  /\ req[g].status = 200
                        /\ req[g].out = w.body
                        /\ req[g].clen = Len(w.body)

\* C4 witness: a StoreBinary of this run returned OK and a later Fetch has
\* answered its whole body
C4_Witness ==
    \E w, g \in Procs :
        /\ PutOf(w) /\ req[w].status = 200 /\ Len(req[w].body) = MaxBodyLen
        /\ GetOf(g) /\ req[g].pc = "done" /\ req[g].status = 200
        /\ req[g].fd = w /\ req[g].out = req[w].body
        /\ req[g].clen = MaxBodyLen

\* the requests that have arrived in this run
Started == {p \in Procs : req[p].pc # "idle"}
OnlyFailedPuts == Started # {} /\ \A p \in Started : PutOf(p) /\ Failed(req[p])

\* the file system this run started with
StartDirs == IF req[OldFile].pc = "done" THEN InitDirs \cup {Shard(HashA)} ELSE InitDirs
StartNames ==
    IF req[OldFile].pc = "done" THEN [q \in {Dest(HashA)} |-> OldFile]
    ELSE [q \in {} |-> NoFd]

\* C7 (as claimed): when every request so far was a StoreBinary that returned
\* an error, the directories and files under the roots are those the run
\* started with
C7_FailedPutLeavesNothing ==
    OnlyFailedPuts => (dirs = StartDirs /\ names = StartNames)

\* C7 (amended): a StoreBinary that returned an error was never promoted and
\* has left no file except, when it failed in the rename, its staging file;
\* when every request so far was such a StoreBinary, every destination is as
\* the run started with and the only new directories are shard directories
C7_FailedPutLeavesDest ==
    /\ \A p \in Procs :
          (PutOf(p) /\ Failed(req[p])) =>
              /\ p \notin Range(renames)
              /\ \A d \in DOMAIN names :
                    names[d] = p => (req[p].msg = "rename" /\ d = req[p].tmp)
    /\ OnlyFailedPuts =>
          /\ \A d \in Dests : d \in DOMAIN names => d \in DOMAIN StartNames
          /\ \A d \in DOMAIN StartNames :
                d \in DOMAIN names /\ names[d] = StartNames[d]
                    /\ data[names[d]] = req[OldFile].body
          /\ dirs \subseteq StartDirs \cup {Shard(h) : h \in ValidHashes}

\* C7 witness: a StoreBinary has failed in the copy after staging a byte, in
\* a shard directory it created itself; the staging file is gone
C7_Witness ==
    \E p \in Procs :
        /\ OnlyFailedPuts /\ req[p].msg = "stream" /\ data[p] # <<>>
        /\ dirs # StartDirs
        /\ \A d \in DOMAIN names : names[d] # p

\* C9: a StoreBinary that has answered answered 200, 400 or 500: 200 exactly
\* when its staging file was renamed onto the destination, 400 exactly when
\* the hash is too short, 500 for every failure of the writer; before the
\* end it has answered nothing
C9_PutStatus ==
    \A p \in Procs :
        PutOf(p) =>
            IF req[p].pc = "done"
            THEN /\ req[p].status \in {200, 400, 500}
                 /\ req[p].status = 200 <=> p \in Range(renames)
                 /\ req[p].status = 200 <=> req[p].msg = ""
                 /\ req[p].status = 400 <=> StrLen(req[p].hash) < MinHashLen
                 /\ req[p].status = 400 <=> req[p].msg = "hash too short"
                 /\ req[p].msg \in {"AlreadyExists", "NotFound", "create_dir",
                                    "tempfile", "stream", "write", "rename"}
                        => req[p].status = 500
            ELSE req[p].status = 0 /\ p \notin Range(renames)

\* C9 witness: one StoreBinary has answered 500 for a failed rename after
\* another answered 400 for a short hash
C9_Witness ==
    \E p, q \in Procs :
        /\ PutOf(p) /\ req[p].pc = "done" /\ req[p].status = 500
        /\ req[p].msg = "rename"
        /\ PutOf(q) /\ req[q].pc = "done" /\ req[q].status = 400

-----------------------------------------------------------------------------
(* Exists and StoreBinary of two hashes of one shard (SpecHead).            *)

HeadOps == {"head", "put"}
HeadTokens == {HashA, HashB}

NextHead ==
    \/ \E p \in Procs : Start(p, HeadOps, HeadTokens)
    \/ \E p \in Procs : HashToFile(p)
    \/ \E p \in Procs : CacheHead(p)
    \/ \E p \in Procs : PutParentExists(p)
    \/ \E p \in Procs : PutCreateDir(p)
    \/ \E p \in Procs : TmpCreate(p)
    \/ \E p \in Procs : CopyChunk(p)
    \/ \E p \in Procs : CopyEof(p)
    \/ \E p \in Procs : CopyFail(p)
    \/ \E p \in Procs : KeepRename(p)
    \/ \E p \in Procs : Cancel(p)
    \/ Crash

SpecHead == Init /\ [][NextHead]_vars

HeadOf(p) == req[p].op = "head"

\* C5: an Exists of a valid hash answers 200 or 404, and 200 exactly when a
\* StoreBinary of that hash had been promoted before it looked; staging,
\* streaming and failed StoreBinary, and those of other hashes, do not count
C5_ExistsIffPromoted ==
    \A p \in Procs :
        (HeadOf(p) /\ req[p].pc = "done") =>
            /\ req[p].status \in {200, 404}
            /\ req[p].status = 200 <=>
                   RenamesTo(Canon(req[p].cache_path), 1, req[p].seen0) # {}

\* C5 witness: Exists answered 200 for a hash a StoreBinary of this run had
\* stored, and the other request staged a body for the other hash
C5_Witness ==
    \E p, q \in Procs :
        /\ HeadOf(p) /\ req[p].pc = "done" /\ req[p].status = 200
        /\ req[p].hash = HashB
        /\ PutOf(q) /\ req[q].hash = HashB /\ req[q].status = 200

\* C5 witness of the other half: Exists answered 404 while a StoreBinary of
\* the same hash had staged bytes that were never promoted
C5_WitnessNotFound ==
    \E p, q \in Procs :
        /\ HeadOf(p) /\ req[p].pc = "done" /\ req[p].status = 404
        /\ PutOf(q) /\ req[q].hash = req[p].hash
        /\ req[q].pc = "cancelled" /\ data[q] # <<>>

-----------------------------------------------------------------------------
(* Requests with a token that is too short (SpecShort).                     *)

\* 19 ASCII characters; one character; "../a"; six three-byte characters
ShortTokens ==
    {HashShort, <<"a">>, DotDot \o <<"/", "a">>, Rep("E", 6)}
ShortSpecTokens == ShortTokens \cup {HashA}
AllCacheOps == {"get", "head", "put"}

NextShort ==
    \/ \E p \in Procs : Start(p, AllCacheOps, ShortSpecTokens)
    \/ \E p \in Procs : CacheHead(p)
    \/ \E p \in Procs : Step(p)
    \/ Crash

SpecShort == InitEmpty /\ [][NextShort]_vars

\* the paths of the files request p created that still exist
FilesOf(p) == {d \in DOMAIN names : names[d] = p}

\* C6: a GET, HEAD or PUT /cache whose token has fewer than 20 bytes goes
\* from hash_to_file straight to the answer 400: it makes no file system
\* call, opens nothing, stages nothing and creates no file
C6_ShortTokenNoFs ==
    \A p \in Procs :
        (req[p].op \in AllCacheOps /\ StrLen(req[p].hash) < MinHashLen) =>
            /\ req[p].pc \in {"resolve", "done", "crashed"}
            /\ req[p].pc = "done" =>
                   (req[p].status = 400 /\ req[p].msg = "hash too short")
            /\ req[p].pc # "done" => req[p].status = 0
            /\ req[p].fsops = 0
            /\ req[p].fd = NoFd /\ req[p].tmp = <<>> /\ req[p].cache_path = <<>>
            /\ FilesOf(p) = {} /\ p \notin Range(renames)
            /\ (\A q \in Procs : StrLen(req[q].hash) < MinHashLen) =>
                   (dirs = InitDirs /\ DOMAIN names = {})

\* C6 witness: a PUT and a GET with short tokens have both answered 400
C6_Witness ==
    \E p, q \in Procs :
        /\ req[p].op = "put" /\ req[p].hash = HashShort /\ req[p].body # <<>>
        /\ req[p].pc = "done" /\ req[p].status = 400
        /\ req[q].op = "get" /\ req[q].hash = Rep("E", 6)
        /\ req[q].pc = "done" /\ req[q].status = 400

-----------------------------------------------------------------------------
(* StoreAsset (SpecAsset).                                                  *)

AssetOps == {"asset"}
AssetX == <<"x">>
AssetY == <<"y", ".", "t", "x", "t">>
AssetNames == {AssetX, AssetY}

NextAsset ==
    \/ \E p \in Procs : Start(p, AssetOps, AssetNames)
    \/ \E p \in Procs : AssetJoin(p)
    \/ \E p \in Procs : TmpCreate(p)
    \/ \E p \in Procs : CopyChunk(p)
    \/ \E p \in Procs : CopyEof(p)
    \/ \E p \in Procs : CopyFail(p)
    \/ \E p \in Procs : KeepRename(p)
    \/ \E p \in Procs : Cancel(p)
    \/ Crash

SpecAsset == InitEmpty /\ [][NextAsset]_vars

AssetOf(p) == req[p].op = "asset"
AssetDests == {Canon(PathPush(AssetRoot, n)) : n \in AssetNames}

-----------------------------------------------------------------------------
(* hash_to_file as a function (SpecResolve).                                *)

\* how a token starts: nothing special, a three-byte character second, a
\* two-byte character first, a separator, a parent directory
TokenHeads ==
    {<<>>, <<"a", "b">>, <<"a", "E">>, <<"e">>, <<"/">>, DotDot \o <<"/">>}
TokenFills == {"a", "e"}
TokenFillLens == (MinHashLen - 3)..MinHashLen

ResolveTokens ==
    {h \o Rep(c, n) : h \in TokenHeads, c \in TokenFills, n \in TokenFillLens}

InitResolve ==
    /\ dirs = InitDirs
    /\ names = [q \in {} |-> NoFd]
    /\ data = [i \in Inodes |-> <<>>]
    /\ renames = <<>>
    /\ \E op \in AllCacheOps, h \in ResolveTokens :
          req = [p \in Inodes |->
                    IF p = 1 THEN [IdleReq EXCEPT !.op = op, !.hash = h,
                                                  !.pc = "resolve"]
                    ELSE IdleReq]

NextResolve == \E p \in Procs : HashToFile(p)

SpecResolve == InitResolve /\ [][NextResolve]_vars

\* root/token[0:2]/token.zip as the claim writes it, token[0:2] read as the
\* code reads it: the first two bytes
ClaimedPath(root, token) ==
    root \o <<"/">> \o StrPrefix(token, ShardLen).val \o <<"/">> \o token
         \o <<".", "z", "i", "p">>

\* C10 (as claimed): hash_to_file answers BadRequest exactly for the tokens
\* shorter than 20 (counted as the code counts, in bytes), and for every
\* other token, whatever its characters, it returns the path
\* root/token[0:2]/token.zip
C10_ResolveTotal ==
    \A p \in Procs :
        (req[p].op \in AllCacheOps /\ req[p].pc \notin {"idle", "resolve"}) =>
            IF StrLen(req[p].hash) < MinHashLen
            THEN req[p].pc = "done" /\ req[p].status = 400
            ELSE /\ req[p].pc \notin {"done", "panicked"}
                 /\ Components(req[p].cache_path) =
                        Components(ClaimedPath(BinaryRoot, req[p].hash))

-----------------------------------------------------------------------------
(* The four operations together, with a token that starts with a separator *)
(* (SpecSurface).                                                           *)

\* 20 bytes, the first a separator: "/aaaaaaaaaaaaaaaaaaa"
SlashToken == <<"/">> \o Rep("a", MinHashLen - 1)

SurfaceOps == {"get", "head", "put", "asset"}
SurfaceTokens == {HashA, SlashToken}

NextSurface ==
    \/ \E p \in Procs : Start(p, SurfaceOps, SurfaceTokens)
    \/ \E p \in Procs : CacheHead(p)
    \/ \E p \in Procs : AssetJoin(p)
    \/ \E p \in Procs : Step(p)
    \/ Crash

SpecSurface == Init /\ [][NextSurface]_vars

\* the destinations of PUT /cache/{token} for the tokens of SpecSurface
SurfaceDests == {Dest(h) : h \in SurfaceTokens}

\* an Exists or a Fetch that has answered NotFound
NotFoundOf(q) ==
    req[q].op \in {"get", "head"} /\ req[q].pc = "done" /\ req[q].status = 404

\* C11: no step of any request (Fetch, Exists, StoreBinary, StoreAsset; a
\* failure, a cancellation, a crash) removes a file from a binary destination
\* path; and an Exists or Fetch that answered NotFound for a path looked at it
\* before every Exists that answered OK for it and every Fetch that found it:
\* after an OK there is no NotFound, and no File::open fails after metadata
\* succeeded
C11_StoredNeverDeleted ==
    /\ [][\A d \in SurfaceDests : d \in DOMAIN names => d \in DOMAIN names']_vars
    /\ [](\A p, q \in Procs :
            (/\ NotFoundOf(q)
             /\ req[p].op \in {"get", "head"} /\ req[p].status = 200
             /\ Canon(req[p].cache_path) = Canon(req[q].cache_path)) =>
                /\ req[q].msg # "open"
                /\ req[q].seen0 < req[p].seen0)

\* C11 witness: the object of an earlier run is still there, and Exists
\* answers OK, after a StoreBinary of its hash was cancelled with part of its
\* body staged
C11_Witness ==
    \E p, q \in Procs :
        /\ PutOf(p) /\ req[p].hash = HashA /\ req[p].pc = "cancelled"
        /\ data[p] # <<>>
        /\ HeadOf(q) /\ req[q].hash = HashA /\ req[q].pc = "done"
        /\ req[q].status = 200
        /\ DestState(Dest(HashA)) = <<req[OldFile].body>>

-----------------------------------------------------------------------------
(* Requests one after the other: a client that waits for each answer before *)
(* it sends the next request (SpecTwice).                                   *)

\* the slots of successive requests
SeqProcs == 1..(NumReqs + 1)

\* no request is being handled
Quiet == \A q \in SeqProcs : ~InFlight(req[q])

NextTwice ==
    \/ \E p \in SeqProcs : Quiet /\ Start(p, CacheOps, HeadTokens)
    \/ \E p \in SeqProcs : Step(p)

SpecTwice == InitEmpty /\ [][NextTwice]_vars

\* what a client can read back: path -> content
FsView == [d \in DOMAIN names |-> data[names[d]]]

\* the stored state in which hash h holds body b and nothing else is stored
StoredOnce(h, b) == [d \in {Dest(h)} |-> b]

\* a StoreBinary that ran to its answer with no failure of the disk or client
PutRan(p) == PutOf(p) /\ req[p].pc = "done" /\ ~EnvFailure(req[p])

\* C12: StoreBinary(H, B) on an empty cache returns OK and leaves exactly B
\* at H; an immediately following StoreBinary(H, B) returns OK too, its rename
\* is accepted over the existing destination, and it leaves the same stored
\* state (same directories, same paths, same contents, no staging file); a
\* Fetch(H) after the two answers 200 with exactly B
C12_StoreTwice ==
    /\ \A p \in SeqProcs :
          (req[p].pc = "rename" /\ (\A q \in SeqProcs : q < p => PutRan(q))) =>
              FsRenameOk(req[p].tmp, Components(req[p].cache_path), dirs, names)
    /\ (PutRan(1) /\ Quiet /\ req[2].pc = "idle") =>
          /\ req[1].status = 200
          /\ FsView = StoredOnce(req[1].hash, req[1].body)
          /\ dirs = InitDirs \cup {Shard(req[1].hash)}
    /\ (/\ PutRan(1) /\ PutRan(2)
        /\ req[2].hash = req[1].hash /\ req[2].body = req[1].body) =>
          /\ req[1].status = 200 /\ req[2].status = 200
          /\ (Quiet /\ req[3].op \in {"none", "get"}) =>
                /\ FsView = StoredOnce(req[1].hash, req[1].body)
                /\ dirs = InitDirs \cup {Shard(req[1].hash)}
          /\ (GetOf(3) /\ req[3].hash = req[1].hash /\ req[3].pc = "done") =>
                /\ req[3].status = 200 /\ req[3].msg = ""
                /\ req[3].out = req[1].body
                /\ req[3].clen = Len(req[1].body)

\* C12 witness: the same body of full length was stored twice at one hash,
\* the second time over the first, and then fetched
C12_Witness ==
    /\ PutRan(1) /\ PutRan(2) /\ GetOf(3) /\ req[3].pc = "done"
    /\ req[1].hash = HashB /\ req[2].hash = HashB /\ req[3].hash = HashB
    /\ req[1].body = req[2].body /\ Len(req[1].body) = MaxBodyLen
    /\ renames = <<1, 2>>
    /\ req[3].out = req[1].body

-----------------------------------------------------------------------------
(* StoreAsset with names of every shape (SpecAssetNames).                   *)

\* "x"; "/" alone; "/x"; "x/y"
NameSlash == <<"/">>
NameSlashX == <<"/", "x">>
NameXSlashY == <<"x", "/", "y">>
AnyAssetNames == {AssetX, NameSlash, NameSlashX, NameXSlashY}

NextAssetNames ==
    \/ \E p \in Procs : Start(p, AssetOps, AnyAssetNames)
    \/ \E p \in Procs : AssetJoin(p)
    \/ \E p \in Procs : TmpCreate(p)
    \/ \E p \in Procs : CopyChunk(p)
    \/ \E p \in Procs : CopyEof(p)
    \/ \E p \in Procs : CopyFail(p)
    \/ \E p \in Procs : KeepRename(p)
    \/ \E p \in Procs : Cancel(p)
    \/ Crash

SpecAssetNames == InitEmpty /\ [][NextAssetNames]_vars

\* asset_root/name as the claim writes it: the name after the root and a
\* separator
ClaimedAssetPath(name) == Canon(AssetRoot \o <<"/">> \o name)

\* C13 (as claimed): for every name, a StoreAsset ends with 200 or 500 and
\* with nothing else (never 400, never without an answer), it creates no
\* directory, and when it answers 200 its body is the file at asset_root/name
C13_AssetAnyName ==
    /\ dirs = InitDirs
    /\ \A p \in Procs :
          AssetOf(p) =>
              /\ req[p].pc # "panicked"
              /\ req[p].status \in {0, 200, 500}
              /\ req[p].pc = "done" => req[p].status \in {200, 500}
              /\ req[p].status = 200 =>
                    /\ ClaimedAssetPath(req[p].hash) \in DOMAIN names
                    /\ data[names[ClaimedAssetPath(req[p].hash)]] \in
                           {req[q].body : q \in {q \in Procs :
                               AssetOf(q) /\ req[q].hash = req[p].hash
                                          /\ req[q].status = 200}}

-----------------------------------------------------------------------------
(* Creation of the shard directory by concurrent StoreBinary (SpecHead).    *)

\* C15 (as claimed): a StoreBinary answers 500 only for a failure of the disk
\* or of the client; that another request created the shard directory first
\* ("AlreadyExists" from create_dir) is never the reason
C15_MkdirRaceTolerated ==
    \A p \in Procs :
        (PutOf(p) /\ req[p].pc = "done" /\ req[p].status = 500) =>
            /\ req[p].msg # "AlreadyExists"
            /\ EnvFailure(req[p])

-----------------------------------------------------------------------------
(* Content-Length of Fetch (Spec).                                          *)

\* C16: a Fetch that answered 200 streams the file it opened, whole and
\* unchanged by later renames, and its Content-Length is the length of that
\* file unless a StoreBinary of the same hash was renamed between the
\* Fetch's fs::metadata and its File::open
C16_ContentLength ==
    \A g \in Procs :
        (GetOf(g) /\ req[g].status = 200) =>
            LET d == Canon(req[g].cache_path)
                window == RenamesTo(d, req[g].seen0 + 1, req[g].seen1)
            IN  /\ req[g].fd \in Inodes
                /\ data[req[g].fd] = req[req[g].fd].body
                /\ IsPrefix(req[g].out, data[req[g].fd])
                /\ (req[g].pc = "done") => (req[g].out = data[req[g].fd])
                /\ (window = {}) => (req[g].clen = Len(data[req[g].fd]))
                /\ (req[g].clen # Len(data[req[g].fd])) =>
                       /\ window # {}
                       /\ req[g].seen0 < req[g].seen1

\* C16 witness: a StoreBinary of a body of another length was renamed after
\* the Fetch had opened the prior file; the Fetch streamed the prior body and
\* its Content-Length is that body's length
C16_Witness ==
    \E g, q \in Procs :
        /\ GetOf(g) /\ req[g].pc = "done" /\ req[g].status = 200
        /\ req[g].fd = OldFile /\ req[g].seen0 = req[g].seen1
        /\ req[g].seen1 < Len(renames)
        /\ PutOf(q) /\ req[q].status = 200 /\ req[q].hash = req[g].hash
        /\ Len(req[q].body) # Len(req[g].out)
        /\ req[g].clen = Len(req[g].out) /\ req[g].clen = MaxBodyLen

\* the window of C16 is real: a rename between metadata and open leaves the
\* Content-Length of the prior file on the body of the new one
C16_WitnessWindow ==
    \E g, q \in Procs :
        /\ GetOf(g) /\ req[g].pc = "done" /\ req[g].status = 200
        /\ req[g].fd = q /\ req[g].seen0 < req[g].seen1
        /\ req[g].clen = Len(req[OldFile].body)
        /\ req[g].clen # Len(req[g].out)

-----------------------------------------------------------------------------
(* Confinement to the two roots (SpecSurface).                              *)

RECURSIVE Normal(_, _)
\* a path without its ".." components: each one drops the component before
Normal(cs, acc) ==
    IF cs = <<>> THEN acc
    ELSE IF Head(cs) = DotDot
         THEN Normal(Tail(cs), IF acc = <<>> THEN acc
                               ELSE SubSeq(acc, 1, Len(acc) - 1))
    ELSE Normal(Tail(cs), Append(acc, Head(cs)))

\* canonical path cp lies below the directory root
Inside(cp, root) == Len(cp) > Len(root) /\ IsPrefix(root, cp)

\* the root a request is confined to
RootOf(p) == IF AssetOf(p) THEN Canon(AssetRoot) ELSE Canon(BinaryRoot)

\* C17 (as claimed): every file and every directory the service has created
\* lies below binary_root or asset_root, and every path a request has handed
\* to the file system (its destination, its staging file) lies below the
\* root of its operation, whatever the token
C17_Confined ==
    /\ \A d \in DOMAIN names :
          Inside(d, Canon(BinaryRoot)) \/ Inside(d, Canon(AssetRoot))
    /\ \A d \in dirs \ InitDirs : Inside(d, Canon(BinaryRoot))
    /\ \A p \in Procs :
          /\ (req[p].cache_path # <<>> /\ req[p].fsops = 1) =>
                Inside(Normal(Components(req[p].cache_path), <<>>), RootOf(p))
          /\ (req[p].tmp # <<>>) => Inside(req[p].tmp, RootOf(p))

-----------------------------------------------------------------------------
(* The life of a staging file (Spec).                                       *)

\* the staging files request p has left behind: files it created that were
\* never renamed, while p is no longer being handled
Orphans(p) ==
    IF InFlight(req[p]) \/ p \in Range(renames) THEN {} ELSE FilesOf(p)

\* what holds of staging files in every state: a write in flight owns one
\* file, its staging file, which lies in the directory of its destination and
\* belongs to no other request; a write that failed in the copy or was
\* cancelled has no file left; a write that answered 200 has its file under
\* the final name or nowhere
StagingOwned ==
    \A p \in Procs :
        /\ (req[p].tmp # <<>>) =>
              /\ SubSeq(req[p].tmp, 1, Len(req[p].tmp) - 1) =
                     PathParent(req[p].cache_path).comps
              /\ \A q \in Procs : (q # p) => req[q].tmp # req[p].tmp
        /\ (InFlight(req[p]) /\ req[p].tmp # <<>>) =>
              /\ FilesOf(p) = {req[p].tmp}
              /\ req[p].tmp # Canon(req[p].cache_path)
        /\ (req[p].msg \in CopyErrors \/ req[p].pc = "cancelled") =>
              FilesOf(p) = {}
        /\ (req[p].status = 200 /\ PutOf(p)) =>
              FilesOf(p) \subseteq {Canon(req[p].cache_path)}

\* C18 (as claimed): a staging file is left behind only by a write whose
\* final rename failed
C18_OrphanOnlyAfterRenameFailure ==
    /\ StagingOwned
    /\ \A p \in Procs : (Orphans(p) # {}) => req[p].msg = "rename"

\* C18 (amended): a staging file is left behind only by a write whose final
\* rename failed or by a write the process was killed in; it is then the one
\* file of that write, still under its staging name
C18_StagingLifetime ==
    /\ StagingOwned
    /\ \A p \in Procs :
          (Orphans(p) # {}) =>
              /\ req[p].msg = "rename" \/ req[p].pc = "crashed"
              /\ Orphans(p) = {req[p].tmp}

\* C18 witness: one StoreBinary failed in the rename and its staging file is
\* still there; another was cancelled with bytes staged and left nothing
C18_Witness ==
    \E p, q \in Procs :
        /\ PutOf(p) /\ req[p].pc = "done" /\ req[p].msg = "rename"
        /\ Orphans(p) = {req[p].tmp}
        /\ PutOf(q) /\ req[q].pc = "cancelled" /\ data[q] # <<>>
        /\ FilesOf(q) = {}

-----------------------------------------------------------------------------
(* Fetch and Exists change nothing (SpecSurface).                           *)

\* request p is a Fetch or an Exists and the step is a step of p alone
ReadStepOf(p) ==
    /\ req'[p].op \in {"get", "head"}
    /\ req'[p] # req[p]
    /\ \A q \in Procs : (q # p) => req'[q] = req[q]

\* C19: no step of a Fetch or an Exists (its arrival, path resolution,
\* metadata, exists, open, every chunk it streams, its cancellation, its
\* answer whatever the status) changes a directory, a directory entry or the
\* content of a file, under the roots or elsewhere
C19_ReadOnly ==
    [][\A p \in Procs :
          ReadStepOf(p) =>
              (dirs' = dirs /\ names' = names /\ data' = data
                  /\ renames' = renames)]_vars

\* C19 witness: a Fetch and an Exists have answered NotFound on a cache with
\* no shard directory, and the file system is as it started
C19_Witness ==
    \E p, q \in Procs :
        /\ GetOf(p) /\ req[p].pc = "done" /\ req[p].status = 404
        /\ HeadOf(q) /\ req[q].pc = "done" /\ req[q].status = 404
        /\ req[p].hash = HashA /\ req[q].hash = HashA
        /\ Shard(HashA) \notin dirs
        /\ dirs = InitDirs /\ DOMAIN names = {}

-----------------------------------------------------------------------------
(* StoreBinary of one key and the objects of other keys (SpecKeys).         *)

\* a token that spells the way to the object of HashA from the root
\* directory: "/B/aa/aaaaaaaaaaaaaaaaaaaa"
AbsTokenA == BinaryRoot \o <<"/">> \o SubSeq(HashA, 1, ShardLen) \o <<"/">> \o HashA

PutOps == {"put"}
KeyTokens == {HashB, AbsTokenA}

NextKeys ==
    \/ \E p \in Procs : Start(p, PutOps, KeyTokens)
    \/ \E p \in Procs : HashToFile(p)
    \/ \E p \in Procs : PutParentExists(p)
    \/ \E p \in Procs : PutCreateDir(p)
    \/ \E p \in Procs : TmpCreate(p)
    \/ \E p \in Procs : CopyChunk(p)
    \/ \E p \in Procs : CopyEof(p)
    \/ \E p \in Procs : CopyFail(p)
    \/ \E p \in Procs : KeepRename(p)
    \/ \E p \in Procs : Cancel(p)
    \/ Crash

SpecKeys == Init /\ [][NextKeys]_vars

\* the hash whose object a destination holds
HashOfDest == [d \in Dests |-> CHOOSE h \in ValidHashes : Dest(h) = d]

\* C20 (as claimed): whether the object of hash h exists, and its content,
\* change only in a step of a StoreBinary whose hash is h; a StoreBinary of
\* any other token, succeeding, failing or cancelled, leaves them alone
C20_KeyIsolation ==
    [][\A d \in Dests :
          (DestState(d)' # DestState(d)) =>
              \E p \in Procs :
                  PutOf(p) /\ req[p].hash = HashOfDest[d] /\ req'[p] # req[p]]_vars

====
